---- MODULE Spec2Model ----
(***************************************************************************)
(* The AST core of comrak (src/node.rs): the NodeValue taxonomy, the Ast   *)
(* payload built by make_block, and the structural predicates implemented  *)
(* on arena_tree::Node<RefCell<Ast>>.  The arena tree itself (module        *)
(* arena_tree: Node with its parent / sibling / child links and append)    *)
(* is not part of node.rs; its linkage is modelled from the                *)
(* specification's description of the tree linkage contract.               *)
(***************************************************************************)
EXTENDS Integers, Sequences, FiniteSets, TLC

\* ------------------------------------------------------------------ bounds

\* Largest number of nodes allocated in the arena by the tree specifications.
MaxNodes == 3
\* Largest number of nodes allocated by the constructor / classifier
\* specifications, which range over every NodeValue.
MaxSingles == 1
\* Payloads of the variants that carry data are abstracted to 0..MaxPayload.
MaxPayload == 1
\* Start lines range over 0..MaxLine, start columns over 0..MaxColumn.
MaxLine == 1
MaxColumn == 1

\* ------------------------------------------------------------------ NodeValue

\* Option::None for a link of the tree.
None == 0

\* enum NodeValue: the block variants, in declaration order.
BlockVariants ==
    <<"Document", "BlockQuote", "List", "Item", "CodeBlock", "HtmlBlock",
      "CustomBlock", "Paragraph", "Heading", "ThematicBreak">>

\* enum NodeValue: the inline variants, in declaration order.
InlineVariants ==
    <<"Text", "SoftBreak", "LineBreak", "Code", "HtmlInline", "CustomInline",
      "Emph", "Strong", "Strikethrough", "Link", "Image">>

\* Every variant of enum NodeValue.
Variants == {BlockVariants[i] : i \in DOMAIN BlockVariants}
                \cup {InlineVariants[i] : i \in DOMAIN InlineVariants}

\* The variants declared with a payload: List(NodeList), Item(NodeList),
\* CodeBlock(..), HtmlBlock(..), Heading(..), Text(..), Code(..),
\* HtmlInline(..), Link(NodeLink), Image(NodeLink).
PayloadVariants ==
    {"List", "Item", "CodeBlock", "HtmlBlock", "Heading",
     "Text", "Code", "HtmlInline", "Link", "Image"}

\* The values of type NodeValue: a variant tag and its payload (0 for a
\* variant without one).
NodeValue ==
    {[kind |-> k, payload |-> p] : k \in PayloadVariants, p \in 0..MaxPayload}
        \cup {[kind |-> k, payload |-> 0] : k \in Variants \ PayloadVariants}

\* A value of the given variant with the default payload.
V(k) == [kind |-> k, payload |-> 0]

\* NodeValue::block, with a variant left out of the match.
block_without_thematic_break(v) ==
    IF v.kind \in {"Document", "BlockQuote", "List", "Item", "CodeBlock",
                   "HtmlBlock", "CustomBlock", "Paragraph", "Heading"}
    THEN TRUE
    ELSE FALSE

\* NodeValue::block
block(v) ==
    IF v.kind \in {"Document", "BlockQuote", "List", "Item", "CodeBlock",
                   "HtmlBlock", "CustomBlock", "Paragraph", "Heading",
                   "ThematicBreak"}
    THEN TRUE
    ELSE FALSE

\* ------------------------------------------------------------------ Ast

\* make_block, with end_column copied from start_column.
make_block_end_column(value, start_line, start_column) ==
    [value |-> value,
     content |-> <<>>,
     start_line |-> start_line,
     start_column |-> start_column,
     end_line |-> start_line,
     end_column |-> start_column,
     open |-> TRUE,
     last_line_blank |-> FALSE]

\* make_block
make_block(value, start_line, start_column) ==
    [value |-> value,
     content |-> <<>>,
     start_line |-> start_line,
     start_column |-> start_column,
     end_line |-> start_line,
     end_column |-> 0,
     open |-> TRUE,
     last_line_blank |-> FALSE]

\* ------------------------------------------------------------------ state

VARIABLES
    arena,      \* the arena: a sequence of tree nodes, a node's id its index
    call,       \* the query or constructor call last made, with its arguments
    ret,        \* what that call returned
    pc,         \* "ready", or "ends_with_blank_line" while its loop runs
    it,         \* ends_with_blank_line: the loop variable `it`
    respected   \* the caller attached and swapped only what can_contain_type accepts

vars == <<arena, call, ret, pc, it, respected>>

\* The ids of the allocated nodes.
Nodes == DOMAIN arena

\* No call made, or the tree changed since the last one.
NoCall == [name |-> "none"]
NoRet == [nothing |-> TRUE]

\* What a call returned: a bool, an Option<&Node> or an Ast.
RetBool(b) == [bool |-> b]
RetNode(n) == [node |-> n]
RetAst(ast) == [ast |-> ast]

\* A new, detached arena_tree::Node holding `ast`.
NewNode(ast) ==
    [parent |-> None,
     previous_sibling |-> None,
     next_sibling |-> None,
     first_child |-> None,
     last_child |-> None,
     data |-> ast]

\* Whether node a is n or one of n's ancestors.
RECURSIVE IsAncestorOrSelf(_, _)
IsAncestorOrSelf(a, n) ==
    IF n = None THEN FALSE
    ELSE IF n = a THEN TRUE
    ELSE IsAncestorOrSelf(a, arena[n].parent)

\* ------------------------------------------------------------------ queries

\* Node::last_child
last_child(n) == arena[n].last_child

\* Node::parent
parent(n) == arena[n].parent

\* Node::can_contain_type, without the early return for a Document child.
can_contain_type_no_document_check(self, child) ==
    LET value == arena[self].data.value IN
    CASE value.kind \in {"Document", "BlockQuote", "Item"} ->
            block(child) /\ (IF child.kind = "Item" THEN FALSE ELSE TRUE)
      [] value.kind = "List" ->
            IF child.kind = "Item" THEN TRUE ELSE FALSE
      [] value.kind = "CustomBlock" -> TRUE
      [] value.kind \in {"Paragraph", "Heading", "Emph", "Strong", "Link",
                         "Image", "CustomInline"} -> ~block(child)
      [] OTHER -> FALSE

\* Node::can_contain_type, with the Item arm merged into the arm of the
\* other containers of blocks.
can_contain_type_item_in_item(self, child) ==
    IF child.kind = "Document" THEN FALSE
    ELSE
    LET value == arena[self].data.value IN
    CASE value.kind \in {"Document", "BlockQuote"} ->
            block(child) /\ (IF child.kind = "Item" THEN FALSE ELSE TRUE)
      [] value.kind \in {"List", "Item"} ->
            IF child.kind = "Item" THEN TRUE ELSE FALSE
      [] value.kind = "CustomBlock" -> TRUE
      [] value.kind \in {"Paragraph", "Heading", "Emph", "Strong", "Link",
                         "Image", "CustomInline"} -> ~block(child)
      [] OTHER -> FALSE

\* Node::can_contain_type, with CustomBlock treated as a container of blocks.
can_contain_type_custom_block_blocks(self, child) ==
    IF child.kind = "Document" THEN FALSE
    ELSE
    LET value == arena[self].data.value IN
    CASE value.kind \in {"Document", "BlockQuote", "Item"} ->
            block(child) /\ (IF child.kind = "Item" THEN FALSE ELSE TRUE)
      [] value.kind = "List" ->
            IF child.kind = "Item" THEN TRUE ELSE FALSE
      [] value.kind = "CustomBlock" -> block(child)
      [] value.kind \in {"Paragraph", "Heading", "Emph", "Strong", "Link",
                         "Image", "CustomInline"} -> ~block(child)
      [] OTHER -> FALSE

\* Node::can_contain_type, with Strikethrough added to the inline containers.
can_contain_type_strikethrough(self, child) ==
    IF child.kind = "Document" THEN FALSE
    ELSE
    LET value == arena[self].data.value IN
    CASE value.kind \in {"Document", "BlockQuote", "Item"} ->
            block(child) /\ (IF child.kind = "Item" THEN FALSE ELSE TRUE)
      [] value.kind = "List" ->
            IF child.kind = "Item" THEN TRUE ELSE FALSE
      [] value.kind = "CustomBlock" -> TRUE
      [] value.kind \in {"Paragraph", "Heading", "Emph", "Strong",
                         "Strikethrough", "Link", "Image", "CustomInline"} ->
            ~block(child)
      [] OTHER -> FALSE

\* Node::can_contain_type
can_contain_type(self, child) ==
    IF child.kind = "Document" THEN FALSE
    ELSE
    LET value == arena[self].data.value IN
    CASE value.kind \in {"Document", "BlockQuote", "Item"} ->
            block(child) /\ (IF child.kind = "Item" THEN FALSE ELSE TRUE)
      [] value.kind = "List" ->
            IF child.kind = "Item" THEN TRUE ELSE FALSE
      [] value.kind = "CustomBlock" -> TRUE
      [] value.kind \in {"Paragraph", "Heading", "Emph", "Strong", "Link",
                         "Image", "CustomInline"} -> ~block(child)
      [] OTHER -> FALSE

\* Node::last_child_is_open, reading the first child.
last_child_is_open_first(self) ==
    IF arena[self].first_child = None THEN FALSE
    ELSE arena[arena[self].first_child].data.open

\* Node::last_child_is_open
last_child_is_open(self) ==
    IF last_child(self) = None THEN FALSE
    ELSE arena[last_child(self)].data.open

\* Node::containing_block: the loop, from the value `ch` holds.
RECURSIVE containing_block_loop(_)
containing_block_loop(ch) ==
    IF ch = None THEN None
    ELSE IF block(arena[ch].data.value) THEN ch
    ELSE containing_block_loop(parent(ch))

\* Node::containing_block, starting the walk at the parent.
containing_block_from_parent(self) == containing_block_loop(parent(self))

\* Node::containing_block
containing_block(self) == containing_block_loop(self)
\* ------------------------------------------------------------------ linkage

\* Node::append, with the new child's parent link set to the node that was
\* the last child.
append_parent_is_sibling(self, new_child) ==
    LET last == arena[self].last_child
        linked == [arena EXCEPT
                     ![new_child].parent = IF last = None THEN self ELSE last,
                     ![new_child].previous_sibling = last,
                     ![self].last_child = new_child,
                     ![self].first_child =
                         IF last = None THEN new_child ELSE @]
    IN  IF last = None THEN linked
        ELSE [linked EXCEPT ![last].next_sibling = new_child]

\* Node::append: the arena after new_child, a detached node, is attached as
\* the last child of self.
append(self, new_child) ==
    LET last == arena[self].last_child
        linked == [arena EXCEPT
                     ![new_child].parent = self,
                     ![new_child].previous_sibling = last,
                     ![self].last_child = new_child,
                     ![self].first_child =
                         IF last = None THEN new_child ELSE @]
    IN  IF last = None THEN linked
        ELSE [linked EXCEPT ![last].next_sibling = new_child]

\* Whether every edge at node n (to its parent, to each of its children) is
\* one can_contain_type accepts.
EdgesAccepted(n) ==
    /\ parent(n) # None => can_contain_type(parent(n), arena[n].data.value)
    /\ \A c \in Nodes :
          parent(c) = n => can_contain_type(n, arena[c].data.value)

\* ------------------------------------------------------------------ actions

Init ==
    /\ arena = <<>>
    /\ call = NoCall
    /\ ret = NoRet
    /\ pc = "ready"
    /\ it = None
    /\ respected = TRUE

\* The parser allocates a node for make_block(value, start_line,
\* start_column); the node is detached.
MakeNode(value, start_line, start_column) ==
    /\ pc = "ready"
    /\ arena' = Append(arena,
                       NewNode(make_block(value, start_line, start_column)))
    /\ call' = [name |-> "make_block", value |-> value,
                start_line |-> start_line, start_column |-> start_column]
    /\ ret' = RetAst(make_block(value, start_line, start_column))
    /\ UNCHANGED <<pc, it, respected>>

\* self.append(new_child) for a detached new_child that is not the root of
\* self's tree.
AppendStep(self, new_child) ==
    /\ pc = "ready"
    /\ parent(new_child) = None
    /\ ~IsAncestorOrSelf(new_child, self)
    /\ arena' = append(self, new_child)
    /\ call' = NoCall
    /\ ret' = NoRet
    /\ UNCHANGED <<pc, it>>

\* node.data.borrow_mut().value = value: the payload swap.
SetValue(n, value) ==
    /\ pc = "ready"
    /\ arena[n].data.value # value
    /\ arena' = [arena EXCEPT ![n].data.value = value]
    /\ call' = NoCall
    /\ ret' = NoRet
    /\ respected' = (respected /\ EdgesAccepted(n)')
    /\ UNCHANGED <<pc, it>>

\* node.data.borrow_mut().open = b
SetOpen(n, b) ==
    /\ pc = "ready"
    /\ arena[n].data.open # b
    /\ arena' = [arena EXCEPT ![n].data.open = b]
    /\ call' = NoCall
    /\ ret' = NoRet
    /\ UNCHANGED <<pc, it, respected>>

\* node.data.borrow_mut().last_line_blank = b
SetLastLineBlank(n, b) ==
    /\ pc = "ready"
    /\ arena[n].data.last_line_blank # b
    /\ arena' = [arena EXCEPT ![n].data.last_line_blank = b]
    /\ call' = NoCall
    /\ ret' = NoRet
    /\ UNCHANGED <<pc, it, respected>>

\* ------------------------------------------------------------------ inputs

\* The values the tree specifications build trees from.
AttachValues == {V("Document"), V("List"), V("Item"), V("Paragraph"), V("Emph")}
BlankValues == {V("List"), V("Item"), V("Paragraph")}
BlockValues == {V("Document"), V("Paragraph"), V("Emph"), V("Text")}
OpenValues == {V("Paragraph"), V("Text")}

\* ------------------------------------------------------------------ SpecMake

\* make_block for any value, start line and start column.
MakeAny ==
    /\ Len(arena) < MaxSingles
    /\ \E value \in NodeValue, start_line \in 0..MaxLine,
          start_column \in 0..MaxColumn :
          MakeNode(value, start_line, start_column)

NextMake == MakeAny

SpecMake == Init /\ [][NextMake]_vars

\* ------------------------------------------------------------------ SpecClassify

\* The node whose value is the parent kind of the classifier calls.
MakeParent ==
    /\ arena = <<>>
    /\ \E value \in NodeValue : MakeNode(value, 0, 0)

\* value.block()
CallBlock ==
    /\ pc = "ready"
    /\ \E value \in NodeValue :
          /\ call' = [name |-> "block", value |-> value]
          /\ ret' = RetBool(block(value))
    /\ UNCHANGED <<arena, pc, it, respected>>

\* self.can_contain_type(&child)
CallCanContainType ==
    /\ pc = "ready"
    /\ \E self \in Nodes, child \in NodeValue :
          /\ call' = [name |-> "can_contain_type", self |-> self,
                      child |-> child]
          /\ ret' = RetBool(can_contain_type(self, child))
    /\ UNCHANGED <<arena, pc, it, respected>>

NextClassify == MakeParent \/ CallBlock \/ CallCanContainType

SpecClassify == Init /\ [][NextClassify]_vars
\* ------------------------------------------------------------------ SpecAttach

\* A detached node of one of the kinds the attachment trees are built from.
AttachMake ==
    /\ Len(arena) < MaxNodes
    /\ \E value \in AttachValues : MakeNode(value, 1, 0)

\* parent.append(child), whatever can_contain_type says of the pair; the
\* caller has respected the containment rules if it says true.
AttachChild ==
    \E self \in Nodes, new_child \in Nodes :
        /\ AppendStep(self, new_child)
        /\ respected' =
              (respected /\ can_contain_type(self, arena[new_child].data.value))

\* A payload swap to another of the kinds.
AttachSwap ==
    \E n \in Nodes, value \in AttachValues : SetValue(n, value)

NextAttach == AttachMake \/ AttachChild \/ AttachSwap

SpecAttach == Init /\ [][NextAttach]_vars

\* ------------------------------------------------------------------ SpecOpen

OpenMake ==
    /\ Len(arena) < MaxNodes
    /\ \E value \in OpenValues : MakeNode(value, 1, 0)

\* parent.append(child)
OpenAppend ==
    \E self \in Nodes, new_child \in Nodes :
        /\ AppendStep(self, new_child)
        /\ UNCHANGED respected

\* The parser closes a node, or reopens it.
OpenSet ==
    \E n \in Nodes, b \in BOOLEAN : SetOpen(n, b)

\* self.last_child_is_open()
CallLastChildIsOpen ==
    /\ pc = "ready"
    /\ \E self \in Nodes :
          /\ call' = [name |-> "last_child_is_open", self |-> self]
          /\ ret' = RetBool(last_child_is_open(self))
    /\ UNCHANGED <<arena, pc, it, respected>>

NextOpen == OpenMake \/ OpenAppend \/ OpenSet \/ CallLastChildIsOpen

SpecOpen == Init /\ [][NextOpen]_vars

\* ------------------------------------------------------------------ SpecBlock

BlockMake ==
    /\ Len(arena) < MaxNodes
    /\ \E value \in BlockValues : MakeNode(value, 1, 0)

\* parent.append(child)
BlockAppend ==
    \E self \in Nodes, new_child \in Nodes :
        /\ AppendStep(self, new_child)
        /\ UNCHANGED respected

\* self.containing_block()
CallContainingBlock ==
    /\ pc = "ready"
    /\ \E self \in Nodes :
          /\ call' = [name |-> "containing_block", self |-> self]
          /\ ret' = RetNode(containing_block(self))
    /\ UNCHANGED <<arena, pc, it, respected>>

NextBlock == BlockMake \/ BlockAppend \/ CallContainingBlock

SpecBlock == Init /\ [][NextBlock]_vars

\* ------------------------------------------------------------------ SpecBlank

BlankMake ==
    /\ Len(arena) < MaxNodes
    /\ \E value \in BlankValues : MakeNode(value, 1, 0)

\* parent.append(child) for the node made last, as the block parser does
\* when it adds a child: every ordered tree is built this way, its nodes
\* numbered in preorder.
BlankAppend ==
    \E self \in Nodes :
        /\ AppendStep(self, Len(arena))
        /\ UNCHANGED respected

\* The parser records whether the last line of a node was blank.
BlankSet ==
    \E n \in Nodes, b \in BOOLEAN : SetLastLineBlank(n, b)

\* self.ends_with_blank_line(): `let mut it = Some(self);`
CallEndsWithBlankLine ==
    /\ pc = "ready"
    /\ \E self \in Nodes :
          /\ call' = [name |-> "ends_with_blank_line", self |-> self]
          /\ it' = self
    /\ ret' = NoRet
    /\ pc' = "ends_with_blank_line"
    /\ UNCHANGED <<arena, respected>>

\* The loop's step with a List or Item treated like any other kind.
ends_with_blank_line_next_no_descent(cur) == None

\* ends_with_blank_line: the value the loop body gives `it` at a node whose
\* last line is not blank.
ends_with_blank_line_next(cur) ==
    IF arena[cur].data.value.kind \in {"List", "Item"}
    THEN last_child(cur)
    ELSE None

\* ends_with_blank_line: one test of `while let Some(cur) = it` and, if it
\* succeeds, one run of the loop body; `false` is returned when it fails.
EndsWithBlankLineLoop ==
    /\ pc = "ends_with_blank_line"
    /\ IF it = None
       THEN /\ ret' = RetBool(FALSE)
            /\ pc' = "ready"
            /\ it' = None
       ELSE IF arena[it].data.last_line_blank
       THEN /\ ret' = RetBool(TRUE)
            /\ pc' = "ready"
            /\ it' = None
       ELSE /\ it' = ends_with_blank_line_next(it)
            /\ UNCHANGED <<ret, pc>>
    /\ UNCHANGED <<arena, call, respected>>

NextBlank ==
    BlankMake \/ BlankAppend \/ BlankSet \/ CallEndsWithBlankLine
        \/ EndsWithBlankLineLoop

\* The code runs to completion: a loop that can step does step.
SpecBlank == Init /\ [][NextBlank]_vars /\ WF_vars(EndsWithBlankLineLoop)
\* ------------------------------------------------------------------ claims

\* The kind of node n's value.
Kind(n) == arena[n].data.value.kind

\* The ten block kinds and the eleven inline kinds, as the claims list them.
TenBlockKinds ==
    {"Document", "BlockQuote", "List", "Item", "CodeBlock", "HtmlBlock",
     "CustomBlock", "Paragraph", "Heading", "ThematicBreak"}
ElevenInlineKinds ==
    {"Text", "SoftBreak", "LineBreak", "Code", "HtmlInline", "CustomInline",
     "Emph", "Strong", "Strikethrough", "Link", "Image"}

\* A can_contain_type call has returned: its parent kind and child kind.
CalledCanContain == call.name = "can_contain_type"
ParentKind == Kind(call.self)
ChildKind == call.child.kind

\* C1 as stated: in every reachable tree, every node that has a parent is a
\* child its parent's can_contain_type accepts.
C1_ContainmentEnforced ==
    \A n \in Nodes :
        parent(n) # None => can_contain_type(parent(n), arena[n].data.value)

\* C1 (amended): as long as the caller has attached a child only where
\* can_contain_type accepted it, and swapped a payload only where every edge
\* at the node is accepted afterwards, every node that has a parent is a
\* child its parent's can_contain_type accepts.
C1_ContainmentWhenRespected ==
    respected => C1_ContainmentEnforced

\* A Document holding a List holding an Item, built by accepted attachments.
C1_Witness ==
    /\ respected
    /\ \E a, b, c \in Nodes :
          /\ parent(b) = a /\ parent(c) = b
          /\ Kind(a) = "Document" /\ Kind(b) = "List" /\ Kind(c) = "Item"

\* C2: can_contain_type(parent, Document) is false for every parent kind.
C2_DocumentChildNeverLegal ==
    (CalledCanContain /\ ChildKind = "Document") => ret = RetBool(FALSE)

C2_Witness ==
    /\ CalledCanContain
    /\ ChildKind = "Document"
    /\ ParentKind = "CustomBlock"
    /\ ret = RetBool(FALSE)

\* C3: a List can contain exactly the Item children, and an Item cannot
\* contain an Item.
C3_ListItemNesting ==
    CalledCanContain =>
        /\ ParentKind = "List" => ret = RetBool(ChildKind = "Item")
        /\ (ParentKind = "Item" /\ ChildKind = "Item") => ret = RetBool(FALSE)

C3_Witness ==
    /\ CalledCanContain
    /\ ParentKind = "List"
    /\ ChildKind = "Item"
    /\ ret = RetBool(TRUE)

\* C4 as stated: a CustomBlock parent can contain a child of every kind.
C4_CustomBlockContainsAll ==
    (CalledCanContain /\ ParentKind = "CustomBlock") => ret = RetBool(TRUE)

\* C4 (amended): a CustomBlock parent can contain a child of every kind
\* except Document, which it cannot contain.
C4_CustomBlockContainsAllButDocument ==
    (CalledCanContain /\ ParentKind = "CustomBlock") =>
        ret = RetBool(ChildKind # "Document")

C4_Witness ==
    /\ CalledCanContain
    /\ ParentKind = "CustomBlock"
    /\ ChildKind = "Text"
    /\ ret = RetBool(TRUE)

\* C5: block(V) is true for each of the ten block kinds and false for each
\* of the eleven inline kinds, whatever the payload; the two lists cover
\* every variant.
C5_BlockPartition ==
    /\ TenBlockKinds \cup ElevenInlineKinds = Variants
    /\ TenBlockKinds \cap ElevenInlineKinds = {}
    /\ call.name = "block" =>
          /\ call.value.kind \in TenBlockKinds => ret = RetBool(TRUE)
          /\ call.value.kind \in ElevenInlineKinds => ret = RetBool(FALSE)

C5_Witness ==
    /\ call.name = "block"
    /\ call.value = [kind |-> "Heading", payload |-> MaxPayload]
    /\ ret = RetBool(TRUE)
\* The node i steps down from n along last-child links (None once the chain
\* has ended).
RECURSIVE LastChildChain(_, _)
LastChildChain(n, i) ==
    IF i = 0 THEN n
    ELSE IF LastChildChain(n, i - 1) = None THEN None
    ELSE arena[LastChildChain(n, i - 1)].last_child

\* On the last-child chain from n, some node has a blank last line and every
\* node before it is a List or an Item.
BlankThroughLists(n) ==
    \E k \in 0..Len(arena) :
        /\ LastChildChain(n, k) # None
        /\ arena[LastChildChain(n, k)].data.last_line_blank
        /\ \A i \in 0..(k - 1) : Kind(LastChildChain(n, i)) \in {"List", "Item"}

\* While the loop of ends_with_blank_line runs, `it` is none (and false is
\* about to be returned) or a node of the last-child chain from self, every
\* node before it a List or Item whose last line is not blank: no child of
\* any other node is examined.
EndsWithBlankLineOnChain ==
    IF it = None
    THEN ~BlankThroughLists(call.self)
    ELSE \E k \in 0..Len(arena) :
            /\ it = LastChildChain(call.self, k)
            /\ \A i \in 0..(k - 1) :
                  /\ Kind(LastChildChain(call.self, i)) \in {"List", "Item"}
                  /\ ~arena[LastChildChain(call.self, i)].data.last_line_blank

\* C6: ends_with_blank_line(n) terminates, and returns true iff, on the
\* last-child chain from n, a node with a blank last line is reached through
\* List and Item nodes only; it examines no child of a node that is neither
\* List nor Item.
C6_EndsWithBlankLine ==
    /\ [](/\ (call.name = "ends_with_blank_line" /\ pc = "ready") =>
                ret = RetBool(BlankThroughLists(call.self))
          /\ pc = "ends_with_blank_line" => EndsWithBlankLineOnChain)
    /\ (pc = "ends_with_blank_line") ~> (pc = "ready")

\* A List whose own last line is not blank and whose last Item's is.
C6_Witness ==
    /\ call.name = "ends_with_blank_line"
    /\ pc = "ready"
    /\ ret = RetBool(TRUE)
    /\ Kind(call.self) = "List"
    /\ ~arena[call.self].data.last_line_blank
    /\ last_child(call.self) # None
    /\ Kind(last_child(call.self)) = "Item"
    /\ arena[last_child(call.self)].data.last_line_blank

\* The node d steps up from n along parent links (None above the root).
RECURSIVE Up(_, _)
Up(n, d) ==
    IF d = 0 THEN n
    ELSE IF Up(n, d - 1) = None THEN None
    ELSE arena[Up(n, d - 1)].parent

\* C7: containing_block(n) is n when n is a block; otherwise the nearest
\* ancestor that is a block; none exactly when neither n nor an ancestor is
\* a block, which does not happen under a Document root.
C7_ContainingBlock ==
    call.name = "containing_block" =>
        LET n == call.self
            found == ret.node
        IN
        /\ Kind(n) \in TenBlockKinds => found = n
        /\ found # None =>
              \E d \in 0..Len(arena) :
                  /\ Up(n, d) = found
                  /\ Kind(found) \in TenBlockKinds
                  /\ \A e \in 0..(d - 1) : Kind(Up(n, e)) \in ElevenInlineKinds
        /\ found = None <=>
              \A d \in 0..Len(arena) :
                  Up(n, d) # None => Kind(Up(n, d)) \notin TenBlockKinds
        /\ (\E d \in 0..Len(arena) :
               Up(n, d) # None /\ Kind(Up(n, d)) = "Document") => found # None

\* A Text inside an Emph inside a Paragraph: the Paragraph is returned.
C7_Witness ==
    /\ call.name = "containing_block"
    /\ Kind(call.self) = "Text"
    /\ parent(call.self) # None
    /\ Kind(parent(call.self)) = "Emph"
    /\ parent(parent(call.self)) # None
    /\ ret = RetNode(parent(parent(call.self)))
    /\ Kind(ret.node) = "Paragraph"

\* C8: last_child_is_open(n) is true iff n has a child and the open flag of
\* the last of n's children is true.
C8_LastChildIsOpen ==
    call.name = "last_child_is_open" =>
        LET n == call.self
            children == {c \in Nodes : parent(c) = n}
        IN  /\ ret = RetBool(\E c \in children :
                         arena[c].next_sibling = None /\ arena[c].data.open)
            /\ children = {} => ret = RetBool(FALSE)

\* An open node whose first child is open and whose last child is closed.
C8_Witness ==
    /\ call.name = "last_child_is_open"
    /\ ret = RetBool(FALSE)
    /\ arena[call.self].data.open
    /\ \E c, d \in Nodes :
          /\ c # d
          /\ parent(c) = call.self /\ parent(d) = call.self
          /\ arena[c].next_sibling = d
          /\ arena[c].data.open
          /\ ~arena[d].data.open

\* C9: make_block(v, l, c) yields a node with value v, start_line l,
\* start_column c, open, last_line_blank false, an empty content buffer,
\* end_line l and end_column 0.
C9_FreshNode ==
    call.name = "make_block" =>
        LET ast == ret.ast IN
        /\ arena[Len(arena)].data = ast
        /\ ast.value = call.value
        /\ ast.start_line = call.start_line
        /\ ast.start_column = call.start_column
        /\ ast.open = TRUE
        /\ ast.last_line_blank = FALSE
        /\ ast.content = <<>>
        /\ ast.end_line = call.start_line
        /\ ast.end_column = 0

C9_Witness ==
    /\ call.name = "make_block"
    /\ call.value.kind = "Text"
    /\ call.start_line = MaxLine
    /\ call.start_column = MaxColumn
    /\ ret.ast.end_line = MaxLine
    /\ ret.ast.end_column = 0

\* C10 as stated: the remaining rows of the table.
C10_RemainingRows ==
    CalledCanContain =>
        /\ ParentKind \in {"Document", "BlockQuote", "Item"} =>
              ret = RetBool(ChildKind \in TenBlockKinds /\ ChildKind # "Item")
        /\ ParentKind \in {"Paragraph", "Heading", "Emph", "Strong", "Link",
                           "Image", "CustomInline"} =>
              ret = RetBool(ChildKind \notin TenBlockKinds)
        /\ ParentKind \in {"CodeBlock", "HtmlBlock", "ThematicBreak", "Text",
                           "Code", "HtmlInline", "SoftBreak", "LineBreak",
                           "Strikethrough"} =>
              ret = RetBool(FALSE)

\* C10 (amended): a Document, BlockQuote or Item parent can contain the child
\* iff the child is a block kind other than Item and other than Document;
\* the other rows as stated.
C10_RemainingRowsButDocument ==
    CalledCanContain =>
        /\ ParentKind \in {"Document", "BlockQuote", "Item"} =>
              ret = RetBool(ChildKind \in TenBlockKinds
                              /\ ChildKind \notin {"Item", "Document"})
        /\ ParentKind \in {"Paragraph", "Heading", "Emph", "Strong", "Link",
                           "Image", "CustomInline"} =>
              ret = RetBool(ChildKind \notin TenBlockKinds)
        /\ ParentKind \in {"CodeBlock", "HtmlBlock", "ThematicBreak", "Text",
                           "Code", "HtmlInline", "SoftBreak", "LineBreak",
                           "Strikethrough"} =>
              ret = RetBool(FALSE)

C10_Witness ==
    /\ CalledCanContain
    /\ ParentKind = "BlockQuote"
    /\ ChildKind = "Document"
    /\ ret = RetBool(FALSE)
====
